---- MODULE Spec2Model ----
(***************************************************************************)
(* InteractionPane: the drag / pinch / wheel handlers of the React         *)
(* component, as a state machine over the owner's transform (scale,        *)
(* offset) and the component's useState cells.                             *)
(*                                                                         *)
(* Numbers.  A JavaScript number is modelled as an exact rational or one   *)
(* of the IEEE specials the handlers can produce (NaN, +Infinity,          *)
(* -Infinity); `undefined` is the value of a property read from the        *)
(* initial empty object {}.  Rounding of the binary64 format and overflow  *)
(* to Infinity by repeated multiplication are not modelled: arithmetic on  *)
(* finite values is exact.  The sign of zero is not modelled: the only     *)
(* divisors in the handlers are a finger distance (a square root, +0 or    *)
(* positive) and a scale (never negative from a positive start), so a zero *)
(* divisor is always +0.                                                   *)
(***************************************************************************)
EXTENDS Integers, Sequences, FiniteSets, TLC

Abs(i) == IF i < 0 THEN -i ELSE i

RECURSIVE Gcd(_, _)
Gcd(a, b) == IF b = 0 THEN a ELSE Gcd(b, a % b)

\* The rational n/d (d # 0) in lowest terms with a positive denominator.
Finite(n, d) ==
  LET g == Gcd(Abs(n), Abs(d))
      s == IF d < 0 THEN -1 ELSE 1
  IN  [k |-> "fin", n |-> s * (n \div g), d |-> s * (d \div g)]

NaN == [k |-> "nan", n |-> 0, d |-> 1]
PosInfinity == [k |-> "inf", n |-> 1, d |-> 1]
NegInfinity == [k |-> "inf", n |-> -1, d |-> 1]
Undefined == [k |-> "undef", n |-> 0, d |-> 1]

Zero == Finite(0, 1)
One == Finite(1, 1)
Two == Finite(2, 1)

\* ToNumber: undefined becomes NaN in arithmetic.
ToNumber(v) == IF v.k = "undef" THEN NaN ELSE v

IsFinite(v) == v.k = "fin"
Sign(v) == IF v.n > 0 THEN 1 ELSE IF v.n < 0 THEN -1 ELSE 0
Signed(s) == IF s > 0 THEN PosInfinity ELSE NegInfinity

Neg(a0) ==
  LET a == ToNumber(a0)
  IN  IF a.k = "nan" THEN NaN ELSE [a EXCEPT !.n = -a.n]

\* a + b
Add(a0, b0) ==
  LET a == ToNumber(a0)
      b == ToNumber(b0)
  IN  CASE a.k = "nan" \/ b.k = "nan" -> NaN
        [] a.k = "fin" /\ b.k = "fin" ->
             LET g == Gcd(a.d, b.d)
             IN  Finite(a.n * (b.d \div g) + b.n * (a.d \div g), (a.d \div g) * b.d)
        [] a.k = "fin" -> b
        [] b.k = "fin" -> a
        [] OTHER -> IF a.n = b.n THEN a ELSE NaN

\* a - b
Sub(a, b) == Add(a, Neg(b))

\* a * b
Mul(a0, b0) ==
  LET a == ToNumber(a0)
      b == ToNumber(b0)
  IN  CASE a.k = "nan" \/ b.k = "nan" -> NaN
        [] a.k = "fin" /\ b.k = "fin" ->
             LET g1 == Gcd(Abs(a.n), b.d)
                 g2 == Gcd(Abs(b.n), a.d)
             IN  Finite((a.n \div g1) * (b.n \div g2), (a.d \div g2) * (b.d \div g1))
        [] OTHER -> IF Sign(a) * Sign(b) = 0 THEN NaN ELSE Signed(Sign(a) * Sign(b))

\* a / b
Div(a0, b0) ==
  LET a == ToNumber(a0)
      b == ToNumber(b0)
  IN  CASE a.k = "nan" \/ b.k = "nan" -> NaN
        [] b.k = "inf" -> IF a.k = "inf" THEN NaN ELSE Zero
        [] b.n = 0 -> IF Sign(a) = 0 THEN NaN ELSE Signed(Sign(a))
        [] a.k = "inf" -> Signed(Sign(a) * Sign(b))
        [] OTHER -> Mul(a, Finite(b.d, b.n))

\* a > b (false when either side is NaN)
Gt(a0, b0) ==
  LET a == ToNumber(a0)
      b == ToNumber(b0)
  IN  CASE a.k = "nan" \/ b.k = "nan" -> FALSE
        [] a.k = "fin" /\ b.k = "fin" -> a.n * b.d > b.n * a.d
        [] a.k = "inf" /\ b.k = "inf" -> a.n > b.n
        [] a.k = "inf" -> a.n > 0
        [] OTHER -> b.n < 0

\* The exact root of a perfect square (the inputs are chosen so that every
\* finger distance is one).
ISqrt(m) == CHOOSE r \in 0..m : r * r = m

\* Math.sqrt
MathSqrt(a0) ==
  LET a == ToNumber(a0)
  IN  CASE a.k = "nan" -> NaN
        [] a.k = "inf" -> IF a.n > 0 THEN PosInfinity ELSE NaN
        [] OTHER -> IF a.n < 0 THEN NaN ELSE Finite(ISqrt(a.n), ISqrt(a.d))

\* Math.round: the nearest integer, a tie going up (floor(a + 1/2)).
MathRound(a0) ==
  LET a == ToNumber(a0)
  IN  IF a.k = "fin" THEN Finite((2 * a.n + a.d) \div (2 * a.d), 1) ELSE a

(***************************************************************************)
(* Inputs.  Contact points lie on the corners of a 4 x 3 rectangle, so     *)
(* every distance between two of them (0, 3, 4, 5) has an exact root.      *)
(***************************************************************************)
MaxEvents == 4

DeltaYs == {-1, 0, 1}

Num(i) == Finite(i, 1)
Pt(i, j) == [clientX |-> Num(i), clientY |-> Num(j)]

\* Where the pointer is pressed and moved, and where the wheel is turned.
PointerPoints == {Pt(0, 0), Pt(4, 3)}
WheelPoints == {Pt(4, 3), Pt(100, 100)}

\* event.touches: one contact; two contacts in one place; two contacts 4
\* apart; the same two shifted by (0, 3); three contacts, the first two 5
\* apart.
TouchLists ==
  { <<Pt(0, 0)>>,
    <<Pt(4, 3), Pt(4, 3)>>,
    <<Pt(0, 0), Pt(4, 0)>>,
    <<Pt(0, 3), Pt(4, 3)>>,
    <<Pt(0, 0), Pt(4, 3), Pt(4, 0)>> }

SCROLLWHEEL_FACTOR == Finite(1, 10)

EmptyObject == [x |-> Undefined, y |-> Undefined]

VARIABLES
  scale, offset,                    \* the owner's state (props)
  initialDistanceBetweenFingers, initialScale,
  initialTouchCenter, initialOffset,
  dragPositionStart, dragPositionOffsetStart, isDragging,
  lastEvent,                        \* history: the event handled last
  before,                           \* history: scale and offset before that event
  seen,                             \* history: the kinds of event handled so far
  drag,                             \* history: the drag session, as the events define it
  pinch,                            \* history: the pinch session, as the events define it
  nEvents

cells == <<initialDistanceBetweenFingers, initialScale, initialTouchCenter,
           initialOffset, dragPositionStart, dragPositionOffsetStart, isDragging>>
pinchCells == <<initialDistanceBetweenFingers, initialScale, initialTouchCenter,
                initialOffset>>
dragCells == <<dragPositionStart, dragPositionOffsetStart, isDragging>>
transform == <<scale, offset>>
history == <<lastEvent, before, seen, drag, pinch, nEvents>>
vars == <<scale, offset, initialDistanceBetweenFingers, initialScale,
          initialTouchCenter, initialOffset, dragPositionStart,
          dragPositionOffsetStart, isDragging, lastEvent, before, seen, drag,
          pinch, nEvents>>

NoEvent == [kind |-> "none", point |-> Pt(0, 0), touches |-> <<>>, deltaY |-> 0]
PointerEvent(kind, p) == [NoEvent EXCEPT !.kind = kind, !.point = p]
TouchEvent(kind, ts) == [NoEvent EXCEPT !.kind = kind, !.touches = ts]
WheelEvent(p, dy) == [NoEvent EXCEPT !.kind = "wheel", !.point = p, !.deltaY = dy]

\* The kind of an event, with the case distinctions the handlers make.
Class(e) ==
  CASE e.kind = "wheel" ->
         IF e.deltaY > 0 THEN "wheelDown"
         ELSE IF e.deltaY < 0 THEN "wheelUp" ELSE "wheelZero"
    [] e.kind \in {"touchStart", "touchMove"} ->
         IF Len(e.touches) >= 2 THEN e.kind \o "2" ELSE e.kind \o "1"
    [] OTHER -> e.kind

\* The owner of README's example: scale 1, content at the top left corner.
Init ==
  /\ scale = One
  /\ offset = [x |-> Zero, y |-> Zero]
  /\ initialDistanceBetweenFingers = Zero
  /\ initialScale = One
  /\ initialTouchCenter = EmptyObject
  /\ initialOffset = EmptyObject
  /\ dragPositionStart = [x |-> Zero, y |-> Zero]
  /\ dragPositionOffsetStart = EmptyObject
  /\ isDragging = FALSE
  /\ lastEvent = NoEvent
  /\ before = [scale |-> One, offset |-> [x |-> Zero, y |-> Zero]]
  /\ seen = {}
  /\ drag = [active |-> FALSE, clean |-> FALSE, S |-> Pt(0, 0),
             O |-> [x |-> Zero, y |-> Zero]]
  /\ pinch = [active |-> FALSE, touches |-> <<>>, scale |-> One,
              offset |-> [x |-> Zero, y |-> Zero], moves |-> 0]
  /\ nEvents = 0

\* The history variables after event e: they record what was delivered and
\* read no cell of the component.  drag: a session runs from a pointer-down
\* (at S, with the offset O) to the next pointer-up, and is clean while only
\* pointer moves have followed its start.  pinch: a session runs from a touch
\* start with two or more contacts (with the scale and offset of that moment)
\* until a touch event reports fewer than two; moves counts the touch moves
\* with two or more contacts since that start.
Record(e) ==
  /\ nEvents' = nEvents + 1
  /\ lastEvent' = e
  /\ before' = [scale |-> scale, offset |-> offset]
  /\ seen' = seen \cup {Class(e)}
  /\ drag' = CASE e.kind = "pointerDown" ->
                    [active |-> TRUE, clean |-> TRUE, S |-> e.point, O |-> offset]
               [] e.kind = "pointerUp" ->
                    [drag EXCEPT !.active = FALSE, !.clean = FALSE]
               [] e.kind = "pointerMove" -> drag
               [] OTHER -> [drag EXCEPT !.clean = FALSE]
  /\ pinch' = CASE Class(e) = "touchStart2" ->
                     [active |-> TRUE, touches |-> e.touches, scale |-> scale,
                      offset |-> offset, moves |-> 0]
                [] Class(e) \in {"touchStart1", "touchMove1"} ->
                     [pinch EXCEPT !.active = FALSE]
                [] Class(e) = "touchMove2" ->
                     [pinch EXCEPT !.moves = pinch.moves + 1]
                [] OTHER -> pinch

(***************************************************************************)
(* Drag                                                                    *)
(***************************************************************************)
\* Faulty variant: a pointer-down during a drag keeps the first snapshot.
handlePointerDown_OnlyFirst(event) ==
  IF isDragging
    THEN UNCHANGED <<scale, offset, cells>>
    ELSE /\ dragPositionStart' = [x |-> event.clientX, y |-> event.clientY]
         /\ dragPositionOffsetStart' = [x |-> offset.x, y |-> offset.y]
         /\ isDragging' = TRUE
         /\ UNCHANGED <<scale, offset, pinchCells>>

\* Faulty variant: pointer-down also snaps the offset to whole pixels.
handlePointerDown_RoundsOffset(event) ==
  /\ dragPositionStart' = [x |-> event.clientX, y |-> event.clientY]
  /\ dragPositionOffsetStart' = [x |-> offset.x, y |-> offset.y]
  /\ isDragging' = TRUE
  /\ offset' = [x |-> MathRound(offset.x), y |-> MathRound(offset.y)]
  /\ UNCHANGED <<scale, pinchCells>>

handlePointerDown(event) ==
  /\ dragPositionStart' = [x |-> event.clientX, y |-> event.clientY]
  /\ dragPositionOffsetStart' = [x |-> offset.x, y |-> offset.y]
  /\ isDragging' = TRUE
  /\ UNCHANGED <<scale, offset, pinchCells>>

\* Faulty variant: pointer-up leaves the drag flag set.
handlePointerUp_KeepsDragging ==
  UNCHANGED <<scale, offset, cells>>

handlePointerUp ==
  /\ isDragging' = FALSE
  /\ UNCHANGED <<scale, offset, pinchCells, dragPositionStart,
                 dragPositionOffsetStart>>

\* Faulty variant: the offset is not rounded.
DragOffset_NoRound(dragPositionEnd, start, offsetStart) ==
  LET deltaX == Sub(dragPositionEnd.x, start.x)
      deltaY == Sub(dragPositionEnd.y, start.y)
  IN  [x |-> Add(offsetStart.x, deltaX),
       y |-> Add(offsetStart.y, deltaY)]

\* The offset a drag move writes.
DragOffset(dragPositionEnd, start, offsetStart) ==
  LET deltaX == Sub(dragPositionEnd.x, start.x)
      deltaY == Sub(dragPositionEnd.y, start.y)
  IN  [x |-> MathRound(Add(offsetStart.x, deltaX)),
       y |-> MathRound(Add(offsetStart.y, deltaY))]

\* Faulty variant: each move adds its delta to the current offset, not to the snapshot.
handlePointerMove_Chained(event) ==
  /\ IF isDragging
       THEN offset' = DragOffset([x |-> event.clientX, y |-> event.clientY],
                                 dragPositionStart, offset)
       ELSE offset' = offset
  /\ UNCHANGED <<scale, cells>>

\* Faulty variant: a drag move also resets the scale to 1.
handlePointerMove_ResetsScale(event) ==
  /\ IF isDragging
       THEN /\ offset' = DragOffset([x |-> event.clientX, y |-> event.clientY],
                                    dragPositionStart, dragPositionOffsetStart)
            /\ scale' = One
       ELSE UNCHANGED <<scale, offset>>
  /\ UNCHANGED cells

handlePointerMove(event) ==
  /\ IF isDragging
       THEN offset' = DragOffset([x |-> event.clientX, y |-> event.clientY],
                                 dragPositionStart, dragPositionOffsetStart)
       ELSE offset' = offset
  /\ UNCHANGED <<scale, cells>>

(***************************************************************************)
(* Pinch                                                                   *)
(***************************************************************************)
\* Faulty variant: the distance between the last two contacts.
FingerDistance_LastTwo(touches) ==
  LET n == Len(touches)
      distanceX == Sub(touches[n].clientX, touches[n - 1].clientX)
      distanceY == Sub(touches[n].clientY, touches[n - 1].clientY)
  IN  MathSqrt(Add(Mul(distanceX, distanceX), Mul(distanceY, distanceY)))

\* The distance between the first two contacts.
FingerDistance(touches) ==
  LET distanceX == Sub(touches[2].clientX, touches[1].clientX)
      distanceY == Sub(touches[2].clientY, touches[1].clientY)
  IN  MathSqrt(Add(Mul(distanceX, distanceX), Mul(distanceY, distanceY)))

\* The midpoint of the first two contacts.
TouchCenter(touches) ==
  [x |-> Add(touches[1].clientX,
             Div(Sub(touches[2].clientX, touches[1].clientX), Two)),
   y |-> Add(touches[1].clientY,
             Div(Sub(touches[2].clientY, touches[1].clientY), Two))]

handleTouchStart(event) ==
  IF Len(event.touches) >= 2
    THEN /\ initialDistanceBetweenFingers' = FingerDistance(event.touches)
         /\ initialTouchCenter' = TouchCenter(event.touches)
         /\ initialScale' = scale
         /\ initialOffset' = [x |-> offset.x, y |-> offset.y]
         /\ UNCHANGED <<scale, offset, dragCells>>
    ELSE UNCHANGED <<scale, offset, cells>>

\* The scale a pinch move writes.
PinchScale(touches, startDistance, startScale) ==
  LET scaleChange == Div(FingerDistance(touches), startDistance)
  IN  Mul(startScale, scaleChange)

\* One coordinate of the offset that keeps the content point under `focus`
\* at `focus` when the scale goes from oldScale to newScale.
OffsetAdjustment1(focus, oldOffset, oldScale, newScale) ==
  LET imageCoordinate == Div(Sub(focus, oldOffset), oldScale)
      wouldBeNewScreenPosition == Add(Mul(imageCoordinate, newScale), oldOffset)
  IN  Sub(focus, wouldBeNewScreenPosition)

\* Faulty variant: the movement of the midpoint is left out.
PinchOffset_NoPan(touches, startCenter, startOffset, startScale, newScale) ==
  [x |-> Add(startOffset.x,
             OffsetAdjustment1(startCenter.x, startOffset.x, startScale, newScale)),
   y |-> Add(startOffset.y,
             OffsetAdjustment1(startCenter.y, startOffset.y, startScale, newScale))]

\* The offset a pinch move writes.
PinchOffset(touches, startCenter, startOffset, startScale, newScale) ==
  LET currentCenter == TouchCenter(touches)
      adjX1 == OffsetAdjustment1(startCenter.x, startOffset.x, startScale, newScale)
      adjY1 == OffsetAdjustment1(startCenter.y, startOffset.y, startScale, newScale)
      adjX2 == Sub(currentCenter.x, startCenter.x)
      adjY2 == Sub(currentCenter.y, startCenter.y)
  IN  [x |-> Add(Add(startOffset.x, adjX1), adjX2),
       y |-> Add(Add(startOffset.y, adjY1), adjY2)]

\* Faulty variant: each move scales the current scale, not the snapshot.
handleTouchMove_Chained(event) ==
  /\ IF Len(event.touches) >= 2
       THEN LET newScale == PinchScale(event.touches,
                                       initialDistanceBetweenFingers, scale)
            IN  /\ scale' = newScale
                /\ offset' = PinchOffset(event.touches, initialTouchCenter,
                                         initialOffset, initialScale, newScale)
       ELSE UNCHANGED <<scale, offset>>
  /\ UNCHANGED cells

\* Faulty variant: a touch move with fewer than two contacts clears the
\* start distance.
handleTouchMove_TearsDown(event) ==
  IF Len(event.touches) >= 2
    THEN LET newScale == PinchScale(event.touches,
                                    initialDistanceBetweenFingers, initialScale)
         IN  /\ scale' = newScale
             /\ offset' = PinchOffset(event.touches, initialTouchCenter,
                                      initialOffset, initialScale, newScale)
             /\ UNCHANGED cells
    ELSE /\ initialDistanceBetweenFingers' = Zero
         /\ UNCHANGED <<scale, offset, initialScale, initialTouchCenter,
                        initialOffset, dragCells>>

handleTouchMove(event) ==
  /\ IF Len(event.touches) >= 2
       THEN LET newScale == PinchScale(event.touches,
                                       initialDistanceBetweenFingers, initialScale)
            IN  /\ scale' = newScale
                /\ offset' = PinchOffset(event.touches, initialTouchCenter,
                                         initialOffset, initialScale, newScale)
       ELSE UNCHANGED <<scale, offset>>
  /\ UNCHANGED cells

(***************************************************************************)
(* Wheel                                                                   *)
(***************************************************************************)
\* Faulty variant: the two directions are swapped.
WheelScale_Swapped(oldScale, deltaY) ==
  IF Gt(Num(deltaY), Zero)
    THEN Mul(oldScale, Add(One, SCROLLWHEEL_FACTOR))
    ELSE Mul(oldScale, Sub(One, SCROLLWHEEL_FACTOR))

\* Faulty variant: a deltaY of 0 zooms out too.
WheelScale_ZeroIsDown(oldScale, deltaY) ==
  IF deltaY >= 0
    THEN Mul(oldScale, Sub(One, SCROLLWHEEL_FACTOR))
    ELSE Mul(oldScale, Add(One, SCROLLWHEEL_FACTOR))

\* The scale a wheel event writes.
WheelScale(oldScale, deltaY) ==
  IF Gt(Num(deltaY), Zero)
    THEN Mul(oldScale, Sub(One, SCROLLWHEEL_FACTOR))
    ELSE Mul(oldScale, Add(One, SCROLLWHEEL_FACTOR))

\* Faulty variant: the adjustment replaces the offset instead of being added to it.
WheelOffset_NoAnchor(cursor, oldOffset, oldScale, newScale) ==
  [x |-> OffsetAdjustment1(cursor.clientX, oldOffset.x, oldScale, newScale),
   y |-> OffsetAdjustment1(cursor.clientY, oldOffset.y, oldScale, newScale)]

\* The offset a wheel event writes.
WheelOffset(cursor, oldOffset, oldScale, newScale) ==
  [x |-> Add(oldOffset.x,
             OffsetAdjustment1(cursor.clientX, oldOffset.x, oldScale, newScale)),
   y |-> Add(oldOffset.y,
             OffsetAdjustment1(cursor.clientY, oldOffset.y, oldScale, newScale))]

\* Faulty variant: the wheel handler's local initialScale and initialOffset
\* are written to the state cells of the same names.
handleWheel_WritesSnapshot(event) ==
  LET newScale == WheelScale(scale, event.deltaY)
  IN  /\ scale' = newScale
      /\ offset' = WheelOffset(event, offset, scale, newScale)
      /\ initialScale' = scale
      /\ initialOffset' = [x |-> offset.x, y |-> offset.y]
      /\ UNCHANGED <<initialDistanceBetweenFingers, initialTouchCenter, dragCells>>

\* Faulty variant: during a drag the wheel carries its offset change into the
\* drag's start offset.
handleWheel_ShiftsDragStart(event) ==
  LET newScale == WheelScale(scale, event.deltaY)
      newOffset == WheelOffset(event, offset, scale, newScale)
  IN  /\ scale' = newScale
      /\ offset' = newOffset
      /\ dragPositionOffsetStart' =
           IF isDragging
             THEN [x |-> Add(dragPositionOffsetStart.x, Sub(newOffset.x, offset.x)),
                   y |-> Add(dragPositionOffsetStart.y, Sub(newOffset.y, offset.y))]
             ELSE dragPositionOffsetStart
      /\ UNCHANGED <<pinchCells, dragPositionStart, isDragging>>

\* Faulty variant: the wheel is ignored while a drag is in progress.
handleWheel_FrozenWhileDragging(event) ==
  LET newScale == WheelScale(scale, event.deltaY)
  IN  /\ IF isDragging
           THEN UNCHANGED <<scale, offset>>
           ELSE /\ scale' = newScale
                /\ offset' = WheelOffset(event, offset, scale, newScale)
      /\ UNCHANGED cells

handleWheel(event) ==
  LET newScale == WheelScale(scale, event.deltaY)
  IN  /\ scale' = newScale
      /\ offset' = WheelOffset(event, offset, scale, newScale)
      /\ UNCHANGED cells

(***************************************************************************)
(* The events the pane's div delivers, one handler run per event.          *)
(***************************************************************************)
PointerDown ==
  /\ nEvents < MaxEvents
  /\ \E p \in PointerPoints :
       handlePointerDown(p) /\ Record(PointerEvent("pointerDown", p))

PointerUp ==
  /\ nEvents < MaxEvents
  /\ handlePointerUp /\ Record(PointerEvent("pointerUp", Pt(0, 0)))

PointerMove ==
  /\ nEvents < MaxEvents
  /\ \E p \in PointerPoints :
       handlePointerMove(p) /\ Record(PointerEvent("pointerMove", p))

TouchStart ==
  /\ nEvents < MaxEvents
  /\ \E ts \in TouchLists :
       handleTouchStart([touches |-> ts]) /\ Record(TouchEvent("touchStart", ts))

TouchMove ==
  /\ nEvents < MaxEvents
  /\ \E ts \in TouchLists :
       handleTouchMove([touches |-> ts]) /\ Record(TouchEvent("touchMove", ts))

Wheel ==
  /\ nEvents < MaxEvents
  /\ \E p \in WheelPoints, dy \in DeltaYs :
       handleWheel([clientX |-> p.clientX, clientY |-> p.clientY, deltaY |-> dy])
         /\ Record(WheelEvent(p, dy))

Next ==
  \/ PointerDown
  \/ PointerUp
  \/ PointerMove
  \/ TouchStart
  \/ TouchMove
  \/ Wheel

Spec == Init /\ [][Next]_vars


(***************************************************************************)
(* Properties                                                              *)
(***************************************************************************)
Positive(v) == v.k = "fin" /\ v.n > 0
FiniteXY(o) == IsFinite(o.x) /\ IsFinite(o.y)

\* The content coordinate under screen coordinate p, and back.
ContentOf(p, s, o) == Div(Sub(p, o), s)
ScreenOf(c, s, o) == Add(Mul(c, s), o)

Midpoint(ts) ==
  [x |-> Div(Add(ts[1].clientX, ts[2].clientX), Two),
   y |-> Div(Add(ts[1].clientY, ts[2].clientY), Two)]

\* Both of the first two contacts of `to` are those of `from` shifted by one vector.
Shift(from, to) ==
  [x |-> Sub(to[1].clientX, from[1].clientX),
   y |-> Sub(to[1].clientY, from[1].clientY)]
Translated(from, to) ==
  /\ Sub(to[2].clientX, from[2].clientX) = Shift(from, to).x
  /\ Sub(to[2].clientY, from[2].clientY) = Shift(from, to).y

\* C1 - wheel focal invariance: a wheel event at cursor P, handled at a scale
\* > 0, leaves the content point that was under P under P, in x and in y.
C1_WheelFocalInvariance ==
  [][ (lastEvent'.kind = "wheel" /\ Positive(scale)) =>
        LET P == lastEvent'.point
        IN  /\ ScreenOf(ContentOf(P.clientX, scale, offset.x), scale', offset'.x)
                 = P.clientX
            /\ ScreenOf(ContentOf(P.clientY, scale, offset.y), scale', offset'.y)
                 = P.clientY ]_vars

\* A wheel event has acted on a transform that earlier events had moved.
C1_Witness ==
  /\ lastEvent.kind = "wheel"
  /\ nEvents >= 2
  /\ Positive(scale) /\ FiniteXY(offset)
  /\ offset.x.d # 1 /\ offset.y.d # 1

\* C2 - pinch focal invariance: in a pinch session started at a scale > 0 by
\* two contacts apart, every touch move with two contacts puts the content point that was under the start midpoint under the
\* current midpoint of the contacts.
C2_PinchFocalInvariance ==
  [][ ( /\ Class(lastEvent') = "touchMove2"
        /\ pinch.active
        /\ Positive(pinch.scale)
        /\ pinch.touches[1] # pinch.touches[2] ) =>
        LET c0 == Midpoint(pinch.touches)
            c1 == Midpoint(lastEvent'.touches)
        IN  /\ ScreenOf(ContentOf(c0.x, pinch.scale, pinch.offset.x),
                        scale', offset'.x) = c1.x
            /\ ScreenOf(ContentOf(c0.y, pinch.scale, pinch.offset.y),
                        scale', offset'.y) = c1.y ]_vars

\* A pinch move has zoomed and moved the midpoint at once.
C2_Witness ==
  /\ Class(lastEvent) = "touchMove2"
  /\ pinch.active
  /\ Positive(pinch.scale) /\ FiniteXY(pinch.offset)
  /\ pinch.touches[1] # pinch.touches[2]
  /\ Midpoint(lastEvent.touches) # Midpoint(pinch.touches)
  /\ Positive(scale) /\ scale # pinch.scale

\* C3 - scale positivity: the scale given to the owner is always a finite
\* number greater than 0.
C3_ScalePositive == Positive(scale)

\* C4 - drag linearity: after a pointer-down at S with offset O followed by
\* pointer moves only, the offset is round(O + (p - S)) for the last move's
\* point p, whatever the moves before it.
C4_DragLinearity ==
  (drag.clean /\ lastEvent.kind = "pointerMove") =>
    offset = [x |-> MathRound(Add(drag.O.x,
                                  Sub(lastEvent.point.clientX, drag.S.clientX))),
              y |-> MathRound(Add(drag.O.y,
                                  Sub(lastEvent.point.clientY, drag.S.clientY)))]

\* A second move of a drag that started from a fractional offset.
C4_Witness ==
  /\ drag.clean /\ lastEvent.kind = "pointerMove"
  /\ nEvents >= 4
  /\ IsFinite(drag.O.x) /\ drag.O.x.d # 1
  /\ lastEvent.point # drag.S

\* C5 - degenerate pinch guard: in a pinch session started from a finite
\* transform by two contacts in one place, no touch move writes NaN or
\* Infinity into the scale or the offset.
C5_DegeneratePinchGuard ==
  ( /\ Class(lastEvent) = "touchMove2"
    /\ pinch.active
    /\ Positive(pinch.scale) /\ FiniteXY(pinch.offset)
    /\ pinch.touches[1] = pinch.touches[2] ) =>
    (IsFinite(scale) /\ FiniteXY(offset))

\* C6 - a pointer move outside a drag session (before any pointer-down, or
\* after a pointer-up) changes neither the transform nor any cell.
C6_MoveWithoutSessionIsNoOp ==
  [][ (lastEvent'.kind = "pointerMove" /\ ~drag.active) =>
        UNCHANGED <<scale, offset, cells>> ]_vars

\* A pointer move away from the start point has arrived after the drag ended.
C6_Witness ==
  /\ lastEvent.kind = "pointerMove"
  /\ ~drag.active
  /\ "pointerUp" \in seen
  /\ lastEvent.point # drag.S

\* C7 - a touch move with two or more contacts that no pinch start has
\* preceded changes neither the scale nor the offset.
C7_StrayPinchMoveIgnored ==
  [][ (Class(lastEvent') = "touchMove2" /\ "touchStart2" \notin seen') =>
        UNCHANGED <<scale, offset>> ]_vars

\* C8 - pinch decomposition: in a pinch session started by two contacts
\* apart, a touch move whose first two contacts are the start contacts shifted
\* by one vector V leaves the scale at the start scale and puts the offset at
\* the start offset + V.
C8_PinchDecomposition ==
  ( /\ Class(lastEvent) = "touchMove2"
    /\ pinch.active
    /\ pinch.touches[1] # pinch.touches[2]
    /\ Translated(pinch.touches, lastEvent.touches) ) =>
    /\ scale = pinch.scale
    /\ offset = [x |-> Add(pinch.offset.x, Shift(pinch.touches, lastEvent.touches).x),
                 y |-> Add(pinch.offset.y, Shift(pinch.touches, lastEvent.touches).y)]

C10_SessionExclusive == ~(drag.active /\ pinch.active)

\* C11: between the start of a drag and its end, no move, wheel or touch event
\* changes the drag snapshot (start pointer position, start offset); between
\* the start of a pinch and its end, no touch move, wheel or pointer event
\* changes the pinch snapshot (start distance, start scale, start centre,
\* start offset).
C11_SnapshotImmutable ==
  [][ /\ (drag.active /\ Class(lastEvent') \notin {"pointerDown", "pointerUp"})
           => UNCHANGED <<dragPositionStart, dragPositionOffsetStart>>
      /\ (pinch.active /\ Class(lastEvent') \notin {"touchStart2", "touchStart1"})
           => UNCHANGED pinchCells ]_vars

\* A wheel event has just been handled inside both a drag and a pinch, whose
\* snapshots are those taken at their starts.
C11_Witness ==
  /\ lastEvent.kind = "wheel"
  /\ drag.active /\ drag.S # Pt(0, 0)
  /\ dragPositionStart = [x |-> drag.S.clientX, y |-> drag.S.clientY]
  /\ dragPositionOffsetStart = drag.O
  /\ pinch.active
  /\ initialScale = pinch.scale /\ initialOffset = pinch.offset
  /\ offset # pinch.offset /\ offset # drag.O

\* The transform a wheel event at cursor e.point with e.deltaY yields from
\* scale s and offset o, as a function of these three only.
WheelTransform(e, s, o) ==
  LET newScale == IF e.deltaY > 0 THEN Mul(s, Sub(One, Finite(1, 10)))
                                  ELSE Mul(s, Add(One, Finite(1, 10)))
      Anchored(p, o1) == Add(o1, Sub(p, ScreenOf(ContentOf(p, s, o1), newScale, o1)))
  IN  [scale |-> newScale,
       offset |-> [x |-> Anchored(e.point.clientX, o.x),
                   y |-> Anchored(e.point.clientY, o.y)]]

\* C12: a wheel event changes neither the drag flag nor any snapshot, and the
\* scale and offset it emits are a function of the event and the current scale
\* and offset alone, whatever sessions are in progress.
C12_WheelStateIndependent ==
  [][ lastEvent'.kind = "wheel" =>
        /\ UNCHANGED cells
        /\ scale' = WheelTransform(lastEvent', scale, offset).scale
        /\ offset' = WheelTransform(lastEvent', scale, offset).offset ]_vars

\* A wheel event has just changed the transform while a drag and a pinch were
\* both in progress.
C12_Witness ==
  /\ lastEvent.kind = "wheel"
  /\ isDragging /\ pinch.active /\ "touchMove2" \in seen
  /\ Positive(scale) /\ scale # pinch.scale

\* C13: a wheel event with deltaY > 0 multiplies the scale by 0.9 and every
\* other one (deltaY negative or 0) by 1.1; from scale 1 and offset (0, 0), a
\* wheel event at (100, 100) with deltaY = 1 gives scale 0.9, offset (10, 10).
C13_WheelStep ==
  [][ lastEvent'.kind = "wheel" =>
        /\ lastEvent'.deltaY > 0 => scale' = Mul(scale, Finite(9, 10))
        /\ lastEvent'.deltaY <= 0 => scale' = Mul(scale, Finite(11, 10))
        /\ ( /\ lastEvent' = WheelEvent(Pt(100, 100), 1)
             /\ scale = One
             /\ offset = [x |-> Zero, y |-> Zero] )
           => /\ scale' = Finite(9, 10)
              /\ offset' = [x |-> Num(10), y |-> Num(10)] ]_vars

\* The example: the wheel event at (100, 100) with deltaY = 1 is the first event.
C13_Witness ==
  /\ nEvents = 1
  /\ lastEvent = WheelEvent(Pt(100, 100), 1)
  /\ scale = Finite(9, 10)
  /\ offset = [x |-> Num(10), y |-> Num(10)]

\* C14: a pointer-down only records the event's point as the start pointer
\* position and the current offset as the start offset and sets the drag flag;
\* a pointer-up only clears the drag flag; neither changes the scale or the
\* offset, whatever sessions are in progress.
C14_DragStartEndKeepTransform ==
  [][ /\ lastEvent'.kind = "pointerDown" =>
           /\ dragPositionStart' = [x |-> lastEvent'.point.clientX,
                                    y |-> lastEvent'.point.clientY]
           /\ dragPositionOffsetStart' = offset
           /\ isDragging'
           /\ UNCHANGED <<scale, offset, pinchCells>>
      /\ lastEvent'.kind = "pointerUp" =>
           /\ ~isDragging'
           /\ UNCHANGED <<scale, offset, pinchCells, dragPositionStart,
                          dragPositionOffsetStart>> ]_vars

\* A pointer-up has just ended a drag that started, inside a pinch, from a
\* zoomed transform with a fractional offset.
C14_Witness ==
  /\ lastEvent.kind = "pointerUp"
  /\ ~isDragging
  /\ pinch.active
  /\ dragPositionOffsetStart = offset
  /\ IsFinite(offset.x) /\ offset.x.d # 1
  /\ scale # One

\* C15: no pointer move changes the scale, whether a drag is in progress or not.
C15_DragMoveKeepsScale ==
  [][ lastEvent'.kind = "pointerMove" => scale' = scale ]_vars

\* A pointer move has just moved a zoomed pane.
C15_Witness ==
  /\ lastEvent.kind = "pointerMove"
  /\ drag.active /\ isDragging
  /\ offset # drag.O
  /\ Positive(scale) /\ scale # One

\* C16: a touch start or touch move with fewer than two contacts changes
\* neither the scale, nor the offset, nor any cell of the pinch snapshot.
C16_FewContactsNoOp ==
  [][ Class(lastEvent') \in {"touchStart1", "touchMove1"} =>
        UNCHANGED <<scale, offset, pinchCells>> ]_vars

\* A touch move with one contact has just followed a pinch that had zoomed.
C16_Witness ==
  /\ Class(lastEvent) = "touchMove1"
  /\ ~pinch.active /\ pinch.moves >= 1
  /\ initialScale = pinch.scale /\ initialOffset = pinch.offset
  /\ initialDistanceBetweenFingers # Zero
  /\ Positive(scale) /\ scale # pinch.scale

\* C17: a touch start with two or more contacts records the Euclidean
\* distance and the midpoint of the first two contacts (ignoring the others)
\* and the current scale and offset, and changes neither scale nor offset.
C17_PinchStartSnapshots ==
  [][ Class(lastEvent') = "touchStart2" =>
        LET ts == lastEvent'.touches
            dx == Sub(ts[2].clientX, ts[1].clientX)
            dy == Sub(ts[2].clientY, ts[1].clientY)
            d  == initialDistanceBetweenFingers'
        IN  /\ IsFinite(d) /\ ~Gt(Zero, d)
            /\ Mul(d, d) = Add(Mul(dx, dx), Mul(dy, dy))
            /\ initialTouchCenter' = Midpoint(ts)
            /\ initialScale' = scale
            /\ initialOffset' = offset
            /\ UNCHANGED <<scale, offset>> ]_vars

\* A touch start with three contacts, the first two 5 apart, has just
\* snapshotted a zoomed transform with a fractional offset.
C17_Witness ==
  /\ Class(lastEvent) = "touchStart2"
  /\ Len(lastEvent.touches) = 3
  /\ initialDistanceBetweenFingers = Num(5)
  /\ initialTouchCenter = Midpoint(lastEvent.touches)
  /\ initialScale = scale /\ scale # One
  /\ initialOffset = offset /\ IsFinite(offset.x) /\ offset.x.d # 1

\* The Euclidean distance between the first two contacts, for contacts with
\* whole-number coordinates a whole number apart.
EuclidDistance(ts) ==
  LET dx == ts[2].clientX.n - ts[1].clientX.n
      dy == ts[2].clientY.n - ts[1].clientY.n
      sq == dx * dx + dy * dy
  IN  Num(CHOOSE d \in 0..sq : d * d = sq)

\* C18: in a pinch whose start contacts are apart, every touch move with two
\* or more contacts leaves scale = start scale * (distance of the move's first
\* two contacts / start distance), however many moves came before; and a touch
\* move that repeats the previous one changes neither scale nor offset.
C18_PinchScaleFromSnapshot ==
  [][ ( /\ Class(lastEvent') = "touchMove2"
        /\ pinch.active
        /\ EuclidDistance(pinch.touches) # Zero ) =>
        /\ scale' = Mul(pinch.scale, Div(EuclidDistance(lastEvent'.touches),
                                         EuclidDistance(pinch.touches)))
        /\ (lastEvent' = lastEvent /\ pinch.moves >= 1)
             => UNCHANGED <<scale, offset>> ]_vars

\* A second touch move of a pinch that started from a zoomed pane has left a
\* scale other than the start scale.
C18_Witness ==
  /\ Class(lastEvent) = "touchMove2"
  /\ pinch.active /\ pinch.moves >= 2
  /\ EuclidDistance(pinch.touches) # Zero
  /\ Positive(pinch.scale) /\ pinch.scale # One
  /\ scale # pinch.scale
  /\ scale = Mul(pinch.scale, Div(EuclidDistance(lastEvent.touches),
                                  EuclidDistance(pinch.touches)))

\* The focal point of a wheel event (its cursor) or of a touch move (the
\* midpoint of its first two contacts).
FocalPoint(e) ==
  IF e.kind = "wheel" THEN [x |-> e.point.clientX, y |-> e.point.clientY]
                      ELSE Midpoint(e.touches)

\* C19: while a drag is in progress a pointer move writes
\* round(start offset + (pointer - start pointer)), whatever a wheel or pinch
\* event did to the offset since the drag started, and keeps the scale they
\* set; when this replaces the offset a wheel or pinch event has just
\* written, the content point that event held under its focal point is no
\* longer there.
C19_DragMoveOverrides ==
  [][ (lastEvent'.kind = "pointerMove" /\ drag.active) =>
        /\ offset' = [x |-> MathRound(Add(drag.O.x, Sub(lastEvent'.point.clientX,
                                                        drag.S.clientX))),
                      y |-> MathRound(Add(drag.O.y, Sub(lastEvent'.point.clientY,
                                                        drag.S.clientY)))]
        /\ scale' = scale
        /\ ( /\ Class(lastEvent) \in {"wheelDown", "wheelUp", "wheelZero", "touchMove2"}
             /\ Positive(scale)
             /\ offset' # offset ) =>
             LET F == FocalPoint(lastEvent)
             IN  \/ ScreenOf(ContentOf(F.x, scale, offset.x), scale', offset'.x) # F.x
                 \/ ScreenOf(ContentOf(F.y, scale, offset.y), scale', offset'.y) # F.y
    ]_vars

\* Pointer-down, then a zooming-out wheel event, then a pointer move: the
\* offset is the one the drag computes from its start, the scale the wheel's.
C19_Witness ==
  /\ nEvents = 3
  /\ seen = {"pointerDown", "wheelDown", "pointerMove"}
  /\ lastEvent.kind = "pointerMove"
  /\ drag.active /\ ~drag.clean
  /\ scale = Finite(9, 10)
  /\ lastEvent.point # drag.S
  /\ offset = [x |-> Sub(lastEvent.point.clientX, drag.S.clientX),
               y |-> Sub(lastEvent.point.clientY, drag.S.clientY)]

\* C20: a pointer-down during a drag replaces the drag snapshot with the new
\* point and the current offset, and a touch start with two or more contacts
\* during a pinch replaces the pinch snapshot with the new contacts' distance
\* and midpoint and the current scale and offset; so the cells always hold the
\* latest start of the session in progress.
C20_RestartResnapshots ==
  [][ /\ (lastEvent'.kind = "pointerDown" /\ drag.active) =>
           /\ dragPositionStart' = [x |-> lastEvent'.point.clientX,
                                    y |-> lastEvent'.point.clientY]
           /\ dragPositionOffsetStart' = offset
      /\ (Class(lastEvent') = "touchStart2" /\ pinch.active) =>
           /\ initialDistanceBetweenFingers' = EuclidDistance(lastEvent'.touches)
           /\ initialTouchCenter' = Midpoint(lastEvent'.touches)
           /\ initialScale' = scale
           /\ initialOffset' = offset
      /\ drag.active' =>
           /\ dragPositionStart' = [x |-> drag.S.clientX', y |-> drag.S.clientY']
           /\ dragPositionOffsetStart' = drag.O'
      /\ pinch.active' =>
           /\ initialDistanceBetweenFingers' = EuclidDistance(pinch.touches')
           /\ initialTouchCenter' = Midpoint(pinch.touches')
           /\ initialScale' = pinch.scale'
           /\ initialOffset' = pinch.offset' ]_vars

\* Pointer-down, a pointer move that moved the pane, and a second pointer-down
\* at another point: the snapshot is the second one.
C20_Witness ==
  /\ nEvents = 3
  /\ seen = {"pointerDown", "pointerMove"}
  /\ lastEvent.kind = "pointerDown"
  /\ offset # [x |-> Zero, y |-> Zero]
  /\ dragPositionOffsetStart = offset
  /\ dragPositionStart = [x |-> Num(4), y |-> Num(3)]

\* lastEvent and lastEvent' are two wheel events at one cursor, one zooming
\* in (deltaY < 0) and one zooming out (deltaY > 0), in either order.
ZoomInAndOut ==
  /\ lastEvent.kind = "wheel" /\ lastEvent'.kind = "wheel"
  /\ lastEvent'.point = lastEvent.point
  /\ \/ lastEvent.deltaY < 0 /\ lastEvent'.deltaY > 0
     \/ lastEvent.deltaY > 0 /\ lastEvent'.deltaY < 0

\* C21: from every transform (scale s, offset o) and for every cursor P, a
\* zoom-in wheel event and a zoom-out wheel event at P, in either order, leave
\* scale = 0.99 * s and offset = P - 0.99 * (P - o).
C21_ZoomInOutNotIdentity ==
  [][ ZoomInAndOut =>
        LET P == lastEvent'.point
            k == Finite(99, 100)
        IN  /\ scale' = Mul(k, before.scale)
            /\ offset'.x = Sub(P.clientX, Mul(k, Sub(P.clientX, before.offset.x)))
            /\ offset'.y = Sub(P.clientY, Mul(k, Sub(P.clientY, before.offset.y)))
    ]_vars

IsInteger(v) == v.k = "fin" /\ v.d = 1

\* C22: whenever isDragging is true, dragPositionStart and
\* dragPositionOffsetStart are the pointer position and the offset recorded by
\* the most recent pointer-down, never the initial empty object; and the
\* offset a drag move has written from a finite start offset has whole-number
\* x and y.
C22_DragSnapshotDefined ==
  /\ isDragging =>
       /\ drag.active
       /\ dragPositionStart = [x |-> drag.S.clientX, y |-> drag.S.clientY]
       /\ dragPositionOffsetStart = drag.O
       /\ dragPositionOffsetStart # EmptyObject
       /\ dragPositionOffsetStart.x # Undefined
       /\ dragPositionOffsetStart.y # Undefined
  /\ ( /\ lastEvent.kind = "pointerMove"
       /\ isDragging
       /\ FiniteXY(dragPositionOffsetStart) )
     => IsInteger(offset.x) /\ IsInteger(offset.y)

\* A drag move has just written a whole-number offset from a start offset
\* with fractional x and y.
C22_Witness ==
  /\ lastEvent.kind = "pointerMove"
  /\ isDragging
  /\ FiniteXY(dragPositionOffsetStart)
  /\ dragPositionOffsetStart.x.d # 1 /\ dragPositionOffsetStart.y.d # 1
  /\ before.offset # offset
  /\ IsInteger(offset.x) /\ IsInteger(offset.y)

====
